---- MODULE Spec2Model ----
(***************************************************************************)
(* The message history store of the Telegram -> Discord bridge             *)
(* (bridge/history/history.py, class MessageHistoryHandler): an in-memory  *)
(* cache of the mapping  forwarder -> source message id -> destination     *)
(* message id, lazily loaded from messages_history.json, rewritten in full *)
(* on every record, with a second file for missed messages and a           *)
(* size-triggered rotation of both files.                                  *)
(*                                                                         *)
(* Python dicts keep insertion order and json.dumps / json.loads / max     *)
(* observe it, so a dict is modelled as a sequence of [key, val] items.    *)
(* Each handler is one atomic action (one call running alone on the event  *)
(* loop).                                                                  *)
(*                                                                         *)
(* The configuration loader (bridge/config/config.py, class Config) is     *)
(* the second part: Config.load and the validator it calls, over YAML      *)
(* documents, under the specification ConfigSpec.                          *)
(***************************************************************************)
EXTENDS Integers, Sequences, FiniteSets, TLC

(***************************************************************************)
(* Inputs of the calls.                                                    *)
(***************************************************************************)
Forwarders == {"f1", "f2"}
\* 7 < 42 as integers, "7" > "42" as strings
SourceIds == {7, 42}
DestIds == {200, 300}
Channels == {9}
\* the failure description handed to save_missed_message (a str)
Exceptions == {"timeout"}
\* number of calls (and restarts) in one behaviour
MaxCalls == 3

\* config.app.history_size_limit, in the unit FileSize counts in
history_size_limit == 2

(***************************************************************************)
(* Python values.                                                          *)
(***************************************************************************)
None == [kind |-> "None", n |-> 0, e |-> ""]
IntVal(d) == [kind |-> "int", n |-> d, e |-> ""]
\* the tuple (discord_channel_id, exception) of save_missed_message
TupleVal(c, e) == [kind |-> "tuple", n |-> c, e |-> e]
\* a JSON array [discord_channel_id, description], a list once loaded
ListVal(c, e) == [kind |-> "list", n |-> c, e |-> e]

\* str(n) for n >= 0, as the sequence of its decimal digits
RECURSIVE Digits(_)
Digits(n) == IF n < 10 THEN <<n>> ELSE Append(Digits(n \div 10), n % 10)

\* int(s) for a string of decimal digits
RECURSIVE ParseInt(_)
ParseInt(ds) ==
    IF ds = <<>> THEN 0
    ELSE 10 * ParseInt(SubSeq(ds, 1, Len(ds) - 1)) + ds[Len(ds)]

\* dict keys: an int (tg_message_id as passed by the callers) or a str (every
\* key of a dict that json.loads returns)
IntKey(n) == [t |-> "int", n |-> n, s |-> <<>>]
StrKey(ds) == [t |-> "str", n |-> 0, s |-> ds]

\* int(key), the sort key of max(forwarder_data, key=int)
KeyInt(key) == IF key.t = "int" THEN key.n ELSE ParseInt(key.s)

\* the key json.dumps writes for a dict key: ints become their decimal string
JsonKey(key) == IF key.t = "int" THEN StrKey(Digits(key.n)) ELSE key

\* the value json.dumps writes: a tuple becomes an array
JsonValue(val) == IF val.kind = "tuple" THEN ListVal(val.n, val.e) ELSE val

(***************************************************************************)
(* Python dict operations on a sequence of items in insertion order.       *)
(***************************************************************************)
Item(k, v) == [key |-> k, val |-> v]

DictHas(d, k) == \E i \in 1..Len(d) : d[i].key = k

DictIndex(d, k) == CHOOSE i \in 1..Len(d) : d[i].key = k

\* d.get(k, default)
DictGet(d, k, default) == IF DictHas(d, k) THEN d[DictIndex(d, k)].val ELSE default

\* d[k] = v that never replaces: every assignment adds an item
DictSetAppend(d, k, v) == Append(d, Item(k, v))

\* d[k] = v: an existing key keeps its position, a new key goes last
DictSet(d, k, v) ==
    IF DictHas(d, k)
    THEN LET i == DictIndex(d, k)
         IN SubSeq(d, 1, i - 1) \o <<Item(k, v)>> \o SubSeq(d, i + 1, Len(d))
    ELSE Append(d, Item(k, v))

\* if forwarder_name not in mapping_data: mapping_data[forwarder_name] = {}
\* mapping_data[forwarder_name][tg_message_id] = value
SetEntry(mapping_data, forwarder_name, tg_message_id, value) ==
    LET with_forwarder == IF DictHas(mapping_data, forwarder_name)
                          THEN mapping_data
                          ELSE DictSet(mapping_data, forwarder_name, <<>>)
        forwarder_data == DictGet(with_forwarder, forwarder_name, <<>>)
    IN DictSet(with_forwarder, forwarder_name,
               DictSet(forwarder_data, IntKey(tg_message_id), value))

(***************************************************************************)
(* json.dumps and json.loads of the mapping.  The text of a file is        *)
(* modelled by the members json.dumps writes, in order: duplicate names    *)
(* are written as they come, and json.loads keeps the last value of a      *)
(* duplicated name at the position of its first occurrence.                *)
(***************************************************************************)
RECURSIVE JsonMembers(_)
JsonMembers(data) ==
    IF data = <<>> THEN <<>>
    ELSE <<Item(JsonKey(Head(data).key), JsonValue(Head(data).val))>>
         \o JsonMembers(Tail(data))

RECURSIVE JsonDocument(_)
JsonDocument(mapping_data) ==
    IF mapping_data = <<>> THEN <<>>
    ELSE <<Item(Head(mapping_data).key, JsonMembers(Head(mapping_data).val))>>
         \o JsonDocument(Tail(mapping_data))

json_dumps(mapping_data) == JsonDocument(mapping_data)

RECURSIVE LoadMembers(_, _)
LoadMembers(members, acc) ==
    IF members = <<>> THEN acc
    ELSE LoadMembers(Tail(members),
                     DictSet(acc, Head(members).key, Head(members).val))

RECURSIVE json_loads(_)
json_loads(doc) ==
    IF doc = <<>> THEN <<>>
    ELSE <<Item(Head(doc).key, LoadMembers(Head(doc).val, <<>>))>>
         \o json_loads(Tail(doc))

(***************************************************************************)
(* Files.                                                                  *)
(***************************************************************************)
AbsentFile == [st |-> "absent", doc |-> <<>>]
\* a file of zero bytes: opened with "w" and never written
EmptyFile == [st |-> "empty", doc |-> <<>>]
JsonFile(doc) == [st |-> "json", doc |-> doc]

RECURSIVE CountMembers(_)
CountMembers(doc) ==
    IF doc = <<>> THEN 0 ELSE Len(Head(doc).val) + CountMembers(Tail(doc))

\* os.stat(file).st_size / (1024 * 1024), counted in members of the document
\* (the text of a document grows with its members; an empty file has size 0)
FileSize(file) ==
    IF file.st \in {"json", "garbled"} THEN 1 + CountMembers(file.doc) ELSE 0

(***************************************************************************)
(* State.                                                                  *)
(***************************************************************************)
VARIABLES
    mapping_data_cache,            \* MessageHistoryHandler._mapping_data_cache
    messages_history_file,         \* MESSAGES_HISTORY_FILE
    missed_messages_history_file,  \* MISSED_MESSAGES_HISTORY_FILE
    last,                          \* the last call, its arguments and result
    process,                       \* what this process has been asked so far
    calls,                         \* calls and restarts made
    config_file,                   \* the YAML document at Config._file_path
    config,                        \* the attributes of the Config instance
    config_call,                   \* the last call on Config and its result
    tasks,                         \* the coroutines running on the event loop
    lock,                          \* the task holding MessageHistoryHandler._lock, or 0
    loads,                         \* reads of the history file, loads into the cache
    config_files,                  \* the YAML documents, by path
    heap,                          \* the Config instances made, by identity
    instances,                     \* Config._instances
    modules,                       \* the Config instance each module holds, or 0
    registry_call,                 \* the last call on the Config class
    edits                          \* replacements of a configuration file so far

\* the history store
hvars == <<mapping_data_cache, messages_history_file,
           missed_messages_history_file, last, process, calls>>
\* the configuration
cvars == <<config_file, config, config_call>>

\* the event loop
tvars == <<tasks, lock, loads>>
\* the registry of Config instances
rvars == <<config_files, heap, instances, modules, registry_call, edits>>

vars == <<mapping_data_cache, messages_history_file,
          missed_messages_history_file, last, process, calls,
          config_file, config, config_call,
          tasks, lock, loads,
          config_files, heap, instances, modules, registry_call, edits>>

\* _mapping_data_cache is None
NoCache == [loaded |-> FALSE, data |-> <<>>]
Cache(mapping_data) == [loaded |-> TRUE, data |-> mapping_data]

\* old: what the mapping held under (f, s) when a record call replaced it
NoCall == [op |-> "none", f |-> "", s |-> 0, d |-> 0, raised |-> "",
           outcome |-> "", ret |-> None, list |-> <<>>, old |-> None]

Pairs == Forwarders \X SourceIds

\* a process that has just started: nothing recorded, only record_success and
\* get_destination_id calls so far, no write completed
NewProcess == [recorded |-> [p \in Pairs |-> None], plain |-> TRUE,
               written |-> FALSE]

\* What a process finds when it starts: no file (a first run), or the history
\* file an earlier run left after record_success("f1", 7, 200) and
\* record_success("f1", 42, 300)
EarlierMapping ==
    SetEntry(SetEntry(<<>>, "f1", 7, IntVal(200)), "f1", 42, IntVal(300))

InitialHistoryFiles == {AbsentFile, JsonFile(json_dumps(EarlierMapping))}

\* a str
Str(s) == [kind |-> "str", n |-> 0, e |-> s]

\* the openai section with the feature switched off
DisabledOpenAI == [enabled |-> FALSE, api_key |-> Str(""), organization |-> Str(""),
                   sentiment_analysis_prompt |-> None]

\* no file at Config._file_path
MissingFile == [kind |-> "missing", sections |-> {}, openai |-> DisabledOpenAI,
                telegram_forwarders |-> <<>>]

\* the instance when __init__ calls load: telegram_forwarders is [], the six
\* other attributes are annotated and not assigned
NewConfig == [app |-> "unset", api |-> "unset", logger |-> "unset",
              telegram |-> "unset", discord |-> "unset", openai |-> "unset",
              telegram_forwarders |-> <<>>]

\* validated: the call got as far as the return of validate_config
NoConfigCall == [op |-> "none", outcome |-> "", validated |-> FALSE,
                 valid |-> FALSE, errors |-> <<>>]

\* number of coroutines in one behaviour
MaxTasks == 2
Tasks == 1..MaxTasks

\* a coroutine not yet called
NoTask == [op |-> "none", f |-> "", s |-> 0, d |-> 0, pc |-> "idle", buf |-> <<>>,
           raised |-> "", outcome |-> "", cache |-> 0]

\* no coroutine is running, the lock is free
NoTasks ==
    /\ tasks = [t \in Tasks |-> NoTask]
    /\ lock = 0
    /\ loads = [reads |-> 0, populated |-> 0]

\* returned: the object the call returned (0: none); loaded: load() ran
NoRegistryCall == [op |-> "none", outcome |-> "", module |-> "", version |-> "",
                   returned |-> 0, loaded |-> FALSE]

\* the Config class before any Config() call
NoRegistry ==
    /\ config_files = <<>>
    /\ heap = <<>>
    /\ instances = <<>>
    /\ modules = <<>>
    /\ registry_call = NoRegistryCall
    /\ edits = 0

Init ==
    /\ NoTasks
    /\ NoRegistry
    /\ mapping_data_cache = NoCache
    /\ messages_history_file \in InitialHistoryFiles
    /\ missed_messages_history_file = AbsentFile
    /\ last = NoCall
    /\ process = NewProcess
    /\ calls = 0
    /\ config_file = MissingFile
    /\ config = NewConfig
    /\ config_call = NoConfigCall


(***************************************************************************)
(* What the file system does to a call: a read of an existing file may     *)
(* fail (PermissionError, an I/O error), an open for writing may fail      *)
(* before it truncates the file, a write may fail after the truncation.    *)
(***************************************************************************)
ReadOutcomes == {"ok", "read_fails"}
WriteOutcomes == {"ok", "open_fails", "write_fails"}

\* load_mapping_data reads the file only when the cache is None
ReadHappens(cache, file) == ~cache.loaded /\ file.st # "absent"

\* load_mapping_data: the cache it leaves and the exception it raises, if any.
\* Only FileNotFoundError is caught.
load_mapping_data(cache, file, rio) ==
    IF cache.loaded THEN [raised |-> "", cache |-> cache]
    ELSE IF file.st = "absent" THEN [raised |-> "", cache |-> Cache(<<>>)]
    ELSE IF rio = "read_fails" THEN [raised |-> "OSError", cache |-> cache]
    ELSE IF file.st \in {"empty", "garbled"}
         THEN [raised |-> "JSONDecodeError", cache |-> cache]
    ELSE [raised |-> "", cache |-> Cache(json_loads(file.doc))]

\* async with aiofiles.open(file, "w") as f: await f.write(json.dumps(mapping_data))
\* the file the block leaves behind and how it ended
WriteFile(file, mapping_data, wio) ==
    IF wio = "open_fails" THEN [file |-> file, outcome |-> "open_fails"]
    ELSE IF wio = "write_fails" THEN [file |-> EmptyFile, outcome |-> "write_fails"]
    ELSE [file |-> JsonFile(json_dumps(mapping_data)), outcome |-> "ok"]

\* a lookup that is not scoped by forwarder: the first forwarder holding the id
LookupAnyForwarder(mapping_data, forwarder_name, tg_message_id) ==
    IF \E i \in 1..Len(mapping_data) :
           DictHas(mapping_data[i].val, IntKey(tg_message_id))
    THEN LET i == CHOOSE i \in 1..Len(mapping_data) :
                      DictHas(mapping_data[i].val, IntKey(tg_message_id))
         IN DictGet(mapping_data[i].val, IntKey(tg_message_id), None)
    ELSE None

\* forwarder_data.get(tg_message_id, None) of mapping_data.get(forwarder_name, None)
Lookup(mapping_data, forwarder_name, tg_message_id) ==
    IF DictHas(mapping_data, forwarder_name)
    THEN DictGet(DictGet(mapping_data, forwarder_name, <<>>),
                 IntKey(tg_message_id), None)
    ELSE None

\* s < t for two strings of digits, compared as strings
RECURSIVE LexLess(_, _)
LexLess(s, t) ==
    IF t = <<>> THEN FALSE
    ELSE IF s = <<>> THEN TRUE
    ELSE IF Head(s) # Head(t) THEN Head(s) < Head(t)
    ELSE LexLess(Tail(s), Tail(t))

\* the decimal string of a key
KeyStr(key) == IF key.t = "int" THEN Digits(key.n) ELSE key.s

\* max(forwarder_data, key=str): the first key whose string is the largest
MaxKeyAsStr(forwarder_data) ==
    LET i == CHOOSE i \in 1..Len(forwarder_data) :
                 /\ \A j \in 1..Len(forwarder_data) :
                        ~LexLess(KeyStr(forwarder_data[i].key),
                                 KeyStr(forwarder_data[j].key))
                 /\ \A j \in 1..(i - 1) :
                        LexLess(KeyStr(forwarder_data[j].key),
                                KeyStr(forwarder_data[i].key))
    IN forwarder_data[i].key

\* max(forwarder_data, key=int): the first key whose int() is the largest
MaxKey(forwarder_data) ==
    LET i == CHOOSE i \in 1..Len(forwarder_data) :
                 /\ \A j \in 1..Len(forwarder_data) :
                        KeyInt(forwarder_data[j].key) <= KeyInt(forwarder_data[i].key)
                 /\ \A j \in 1..(i - 1) :
                        KeyInt(forwarder_data[j].key) < KeyInt(forwarder_data[i].key)
    IN forwarder_data[i].key

\* the loop of get_last_messages_for_all_forwarders over mapping_data.items()
RECURSIVE LastMessages(_)
LastMessages(items) ==
    IF items = <<>> THEN <<>>
    ELSE LET forwarder_name == Head(items).key
             forwarder_data == Head(items).val
         IN IF forwarder_data = <<>>
            THEN LastMessages(Tail(items))
            ELSE LET last_tg_message_id == MaxKey(forwarder_data)
                 IN <<[forwarder_name |-> forwarder_name,
                       telegram_id |-> KeyInt(last_tg_message_id),
                       discord_id |-> DictGet(forwarder_data, last_tg_message_id, None)]>>
                    \o LastMessages(Tail(items))

(***************************************************************************)
(* The calls.                                                              *)
(***************************************************************************)
save_mapping_data(forwarder_name, tg_message_id, discord_message_id, rio, wio) ==
    /\ calls < MaxCalls
    /\ rio = "read_fails" => ReadHappens(mapping_data_cache, messages_history_file)
    /\ LET ld == load_mapping_data(mapping_data_cache, messages_history_file, rio)
           call == [NoCall EXCEPT !.op = "save_mapping_data", !.f = forwarder_name,
                                  !.s = tg_message_id, !.d = discord_message_id]
       IN IF ld.raised # ""
          THEN /\ wio = "ok"
               /\ mapping_data_cache' = ld.cache
               /\ last' = [call EXCEPT !.raised = ld.raised]
               /\ UNCHANGED <<messages_history_file, process>>
          ELSE \* mapping_data is the cached dict itself: the two assignments
               \* change the cache before anything is written
               LET mapping_data == SetEntry(ld.cache.data, forwarder_name,
                                            tg_message_id, IntVal(discord_message_id))
                   w == WriteFile(messages_history_file, mapping_data, wio)
               IN /\ mapping_data_cache' = Cache(mapping_data)
                  /\ messages_history_file' = w.file
                  /\ last' = [call EXCEPT !.outcome = w.outcome,
                                           !.old = Lookup(ld.cache.data, forwarder_name,
                                                          tg_message_id)]
                  /\ process' = [process EXCEPT
                         !.recorded[<<forwarder_name, tg_message_id>>] =
                             IntVal(discord_message_id),
                         !.written = @ \/ w.outcome = "ok"]
    /\ calls' = calls + 1
    /\ UNCHANGED <<cvars, tvars, rvars>>
    /\ UNCHANGED missed_messages_history_file

save_missed_message(forwarder_name, tg_message_id, discord_channel_id, exception, rio, wio) ==
    /\ calls < MaxCalls
    /\ rio = "read_fails" => ReadHappens(mapping_data_cache, messages_history_file)
    /\ LET ld == load_mapping_data(mapping_data_cache, messages_history_file, rio)
           call == [NoCall EXCEPT !.op = "save_missed_message", !.f = forwarder_name,
                                  !.s = tg_message_id, !.d = discord_channel_id]
       IN IF ld.raised # ""
          THEN /\ wio = "ok"
               /\ mapping_data_cache' = ld.cache
               /\ last' = [call EXCEPT !.raised = ld.raised]
               /\ UNCHANGED missed_messages_history_file
          ELSE \* mapping_data is the cached history dict, not a ledger of its own
               LET mapping_data == SetEntry(ld.cache.data, forwarder_name, tg_message_id,
                                            TupleVal(discord_channel_id, exception))
                   w == WriteFile(missed_messages_history_file, mapping_data, wio)
               IN /\ mapping_data_cache' = Cache(mapping_data)
                  /\ missed_messages_history_file' = w.file
                  /\ last' = [call EXCEPT !.outcome = w.outcome]
    /\ process' = [process EXCEPT !.plain = FALSE]
    /\ calls' = calls + 1
    /\ UNCHANGED <<cvars, tvars, rvars>>
    /\ UNCHANGED messages_history_file

get_discord_message_id(forwarder_name, tg_message_id, rio) ==
    /\ calls < MaxCalls
    /\ rio = "read_fails" => ReadHappens(mapping_data_cache, messages_history_file)
    /\ LET ld == load_mapping_data(mapping_data_cache, messages_history_file, rio)
           call == [NoCall EXCEPT !.op = "get_discord_message_id",
                                  !.f = forwarder_name, !.s = tg_message_id]
       IN /\ mapping_data_cache' = ld.cache
          /\ last' = IF ld.raised # ""
                     THEN [call EXCEPT !.raised = ld.raised]
                     ELSE [call EXCEPT !.ret = Lookup(ld.cache.data, forwarder_name,
                                                      tg_message_id)]
    /\ calls' = calls + 1
    /\ UNCHANGED <<cvars, tvars, rvars>>
    /\ UNCHANGED <<messages_history_file, missed_messages_history_file, process>>

get_last_messages_for_all_forwarders(rio) ==
    /\ calls < MaxCalls
    /\ rio = "read_fails" => ReadHappens(mapping_data_cache, messages_history_file)
    /\ LET ld == load_mapping_data(mapping_data_cache, messages_history_file, rio)
           call == [NoCall EXCEPT !.op = "get_last_messages_for_all_forwarders"]
       IN /\ mapping_data_cache' = ld.cache
          /\ last' = IF ld.raised # ""
                     THEN [call EXCEPT !.raised = ld.raised]
                     ELSE [call EXCEPT !.list = LastMessages(ld.cache.data)]
    /\ process' = [process EXCEPT !.plain = FALSE]
    /\ calls' = calls + 1
    /\ UNCHANGED <<cvars, tvars, rvars>>
    /\ UNCHANGED <<messages_history_file, missed_messages_history_file>>

\* the outcome of the try block of clean_history_data: os.stat raises
\* FileNotFoundError on an absent file, and "or" evaluates its right operand
\* only when the left one is false
CleanOutcome(history, missed) ==
    IF history.st = "absent" THEN "stat_fails"
    ELSE IF FileSize(history) > history_size_limit THEN "rotated"
    ELSE IF missed.st = "absent" THEN "stat_fails"
    ELSE IF FileSize(missed) > history_size_limit THEN "rotated"
    ELSE "kept"

clean_history_data ==
    /\ calls < MaxCalls
    /\ LET outcome == CleanOutcome(messages_history_file, missed_messages_history_file)
       IN /\ last' = [NoCall EXCEPT !.op = "clean_history_data", !.outcome = outcome]
          /\ IF outcome = "rotated"
             THEN /\ messages_history_file' = EmptyFile
                  /\ missed_messages_history_file' = EmptyFile
             ELSE UNCHANGED <<messages_history_file, missed_messages_history_file>>
    /\ process' = [process EXCEPT !.plain = FALSE]
    /\ calls' = calls + 1
    /\ UNCHANGED <<cvars, tvars, rvars>>
    /\ UNCHANGED mapping_data_cache

\* the process ends and a new one starts: MessageHistoryHandler() builds the
\* instance again with _mapping_data_cache = None; the files stay
Restart ==
    /\ calls < MaxCalls
    /\ mapping_data_cache' = NoCache
    /\ last' = [NoCall EXCEPT !.op = "restart"]
    /\ process' = NewProcess
    /\ calls' = calls + 1
    /\ UNCHANGED <<cvars, tvars, rvars>>
    /\ UNCHANGED <<messages_history_file, missed_messages_history_file>>

RecordSuccess ==
    \E f \in Forwarders, s \in SourceIds, d \in DestIds,
       rio \in ReadOutcomes, wio \in WriteOutcomes :
        save_mapping_data(f, s, d, rio, wio)

RecordFailure ==
    \E f \in Forwarders, s \in SourceIds, c \in Channels, e \in Exceptions,
       rio \in ReadOutcomes, wio \in WriteOutcomes :
        save_missed_message(f, s, c, e, rio, wio)

GetDestinationId ==
    \E f \in Forwarders, s \in SourceIds, rio \in ReadOutcomes :
        get_discord_message_id(f, s, rio)

LastMessagePerForwarder ==
    \E rio \in ReadOutcomes : get_last_messages_for_all_forwarders(rio)

Next ==
    \/ RecordSuccess
    \/ RecordFailure
    \/ GetDestinationId
    \/ LastMessagePerForwarder
    \/ clean_history_data
    \/ Restart

Spec == Init /\ [][Next]_vars

(***************************************************************************)
(* What a call made in a given state gives back, the read of the history   *)
(* file (if the call makes one) succeeding.                                *)
(***************************************************************************)
Raised(name) == [kind |-> "raised", n |-> 0, e |-> name]

\* the mapping load_mapping_data hands to its caller
Loaded(cache, file) == load_mapping_data(cache, file, "ok").cache.data

\* get_discord_message_id(f, s): the value returned, or the exception raised
GetResult(cache, file, f, s) ==
    LET ld == load_mapping_data(cache, file, "ok")
    IN IF ld.raised # "" THEN Raised(ld.raised) ELSE Lookup(ld.cache.data, f, s)

\* get_last_messages_for_all_forwarders(): the list returned, or the exception
LastMessagesResult(cache, file) ==
    LET ld == load_mapping_data(cache, file, "ok")
    IN IF ld.raised # "" THEN [raised |-> ld.raised, list |-> <<>>]
       ELSE [raised |-> "", list |-> LastMessages(ld.cache.data)]

\* the step is a call of op
Called(op) == last'.op = op /\ calls' = calls + 1

\* the entries of a mapping: forwarder, key, value
Entries(mapping_data) ==
    UNION {{<<mapping_data[i].key, mapping_data[i].val[j].key, mapping_data[i].val[j].val>> :
               j \in 1..Len(mapping_data[i].val)} : i \in 1..Len(mapping_data)}

(***************************************************************************)
(* C1.  In a process that has made only record_success and                 *)
(* get_destination_id calls, get_destination_id(f, s), whenever it         *)
(* returns, returns the destination id of the latest completed             *)
(* record_success(f, s, _) of the process, and None when there was none    *)
(* (an unknown forwarder included); so does the call just made.            *)
(***************************************************************************)
C1_RecordThenGet ==
    process.plain =>
        /\ \A p \in Pairs :
               LET r == GetResult(mapping_data_cache, messages_history_file, p[1], p[2])
               IN r.kind # "raised" => r = process.recorded[p]
        /\ (last.op = "get_discord_message_id" /\ last.raised = "")
               => last.ret = process.recorded[<<last.f, last.s>>]

\* get_destination_id("f1", 7) has just returned the id recorded in this
\* process, while forwarder "f2" is unknown to the mapping
C1_Witness ==
    /\ process.plain
    /\ last.op = "get_discord_message_id" /\ last.f = "f1" /\ last.s = 7
    /\ last.ret = IntVal(300)
    /\ process.recorded[<<"f1", 7>>] = IntVal(300)
    /\ ~DictHas(mapping_data_cache.data, "f2")

(***************************************************************************)
(* C2.  record_failure leaves every get_destination_id result, the result  *)
(* of last_message_per_forwarder and the history file as they were.        *)
(***************************************************************************)
C2_FailureLeavesHistory ==
    [][Called("save_missed_message") =>
          /\ \A p \in Pairs :
                 GetResult(mapping_data_cache', messages_history_file', p[1], p[2])
                     = GetResult(mapping_data_cache, messages_history_file, p[1], p[2])
          /\ LastMessagesResult(mapping_data_cache', messages_history_file')
                 = LastMessagesResult(mapping_data_cache, messages_history_file)
          /\ messages_history_file' = messages_history_file]_vars

(***************************************************************************)
(* C3.  When the write of the history file inside record_success fails,    *)
(* the in-memory mapping is what it was before the call and every          *)
(* get_destination_id returns what it returned before.                     *)
(***************************************************************************)
C3_CacheAfterFailedWrite ==
    [][(Called("save_mapping_data") /\ last'.outcome \in {"open_fails", "write_fails"}) =>
          /\ mapping_data_cache'.data = Loaded(mapping_data_cache, messages_history_file)
          /\ \A p \in Pairs :
                 GetResult(mapping_data_cache', messages_history_file', p[1], p[2])
                     = GetResult(mapping_data_cache, messages_history_file, p[1], p[2])]_vars

(***************************************************************************)
(* C4.  Between calls, once a record_success write has completed in the    *)
(* process, the mapping stored in the history file is the cached mapping   *)
(* (as json.dumps writes it).                                              *)
(***************************************************************************)
C4_FileEqualsCache ==
    (process.written /\ mapping_data_cache.loaded) =>
        /\ messages_history_file.st = "json"
        /\ json_loads(messages_history_file.doc)
               = json_loads(json_dumps(mapping_data_cache.data))

(***************************************************************************)
(* C5.  Right after a rotation that emptied the files, get_destination_id  *)
(* returns None for every entry recorded before it in the same process.    *)
(***************************************************************************)
C5_NotFoundAfterRotation ==
    (last.op = "clean_history_data" /\ last.outcome = "rotated") =>
        \A p \in Pairs :
            process.recorded[p] # None =>
                GetResult(mapping_data_cache, messages_history_file, p[1], p[2]) = None

(***************************************************************************)
(* C6.  A restart of a process whose mapping was built by record_success   *)
(* calls and is persisted gives the same mapping back: the reloaded        *)
(* mapping is the one cached before, and get_destination_id(f, s) with the *)
(* same integer s returns what it returned before.                         *)
(***************************************************************************)
C6_RestartRoundTrip ==
    [][(/\ Called("restart")
        /\ process.plain /\ process.written
        /\ messages_history_file = JsonFile(json_dumps(mapping_data_cache.data))) =>
          /\ Loaded(mapping_data_cache', messages_history_file') = mapping_data_cache.data
          /\ \A p \in Pairs :
                 GetResult(mapping_data_cache', messages_history_file', p[1], p[2])
                     = GetResult(mapping_data_cache, messages_history_file, p[1], p[2])]_vars

(***************************************************************************)
(* C7.  A completed record_success(f, s, d) leaves get_destination_id(f,   *)
(* s) = d, one item for f and one entry under s in it, and every other     *)
(* entry of the mapping as it was; made right after the same completed     *)
(* record_success(f, s, d), it leaves the mapping as it was.               *)
(***************************************************************************)
C7_IdempotentOverwrite ==
    [][(Called("save_mapping_data") /\ last'.raised = "") =>
          LET f == last'.f
              s == last'.s
              before == Loaded(mapping_data_cache, messages_history_file)
              after == mapping_data_cache'.data
              forwarder_data == DictGet(after, f, <<>>)
          IN /\ GetResult(mapping_data_cache', messages_history_file', f, s)
                    = IntVal(last'.d)
             /\ Cardinality({i \in 1..Len(after) : after[i].key = f}) = 1
             /\ Cardinality({i \in 1..Len(forwarder_data) :
                                forwarder_data[i].key = IntKey(s)}) = 1
             /\ Entries(after) \ {<<f, IntKey(s), IntVal(last'.d)>>}
                    = Entries(before) \ {<<f, IntKey(s), last'.old>>}
             /\ (/\ last.op = "save_mapping_data" /\ last.raised = ""
                 /\ last.f = f /\ last.s = s /\ last.d = last'.d)
                    => after = mapping_data_cache.data]_vars

\* record_success("f1", 7, 300) has just replaced the 200 recorded for ("f1", 7)
C7_Witness ==
    /\ last.op = "save_mapping_data" /\ last.raised = ""
    /\ last.f = "f1" /\ last.s = 7 /\ last.d = 300
    /\ last.old = IntVal(200)
    /\ Lookup(mapping_data_cache.data, "f1", 7) = IntVal(300)

(***************************************************************************)
(* C8.  The list last_message_per_forwarder returns holds one element for  *)
(* each forwarder of the mapping that has entries and none for any other;  *)
(* the element's source id is the largest of the forwarder's keys read as  *)
(* integers, int or str, and its destination is the value the mapping      *)
(* holds under a key of that integer value.                                *)
(***************************************************************************)
C8_LastMessagePerForwarder ==
    (last.op = "get_last_messages_for_all_forwarders" /\ last.raised = "") =>
        LET mapping_data == mapping_data_cache.data
            HasEntries(f) == DictHas(mapping_data, f) /\ DictGet(mapping_data, f, <<>>) # <<>>
        IN /\ \A f \in Forwarders :
                  Cardinality({i \in 1..Len(last.list) : last.list[i].forwarder_name = f})
                      = IF HasEntries(f) THEN 1 ELSE 0
           /\ \A i \in 1..Len(last.list) :
                  LET forwarder_data == DictGet(mapping_data, last.list[i].forwarder_name, <<>>)
                  IN /\ last.list[i].forwarder_name \in Forwarders
                     /\ \A j \in 1..Len(forwarder_data) :
                            KeyInt(forwarder_data[j].key) <= last.list[i].telegram_id
                     /\ \E j \in 1..Len(forwarder_data) :
                            /\ KeyInt(forwarder_data[j].key) = last.list[i].telegram_id
                            /\ forwarder_data[j].val = last.list[i].discord_id

\* the list holds 42 for "f1", whose keys are the strings "7" and "42", and
\* nothing for "f2", which has no entry
C8_Witness ==
    /\ last.op = "get_last_messages_for_all_forwarders" /\ last.raised = ""
    /\ last.list = <<[forwarder_name |-> "f1", telegram_id |-> 42,
                      discord_id |-> IntVal(300)]>>
    /\ DictHas(DictGet(mapping_data_cache.data, "f1", <<>>), StrKey(<<7>>))
    /\ DictHas(DictGet(mapping_data_cache.data, "f1", <<>>), StrKey(<<4, 2>>))

(***************************************************************************)
(* C9.  In every state of the store, get_destination_id(f, s) returns a    *)
(* destination id or None and raises nothing.                              *)
(***************************************************************************)
C9_GetNeverFails ==
    \A p \in Pairs :
        GetResult(mapping_data_cache, messages_history_file, p[1], p[2]).kind # "raised"

(***************************************************************************)
(* C10.  record_success and record_failure return normally whatever file   *)
(* I/O failure happens during the call.                                    *)
(***************************************************************************)
C10_RecordNeverRaises ==
    last.op \in {"save_mapping_data", "save_missed_message"} => last.raised = ""

(***************************************************************************)
(* The configuration validator (bridge/config/config.py, class Config).    *)
(* A YAML mapping is a record; an optional key of a forwarder or of a tag   *)
(* is listed in its "keys" when the document has it.  An error message is   *)
(* the record of the check that wrote it and of the forwarder names its     *)
(* prefix carries.                                                          *)
(***************************************************************************)
\* tag.get("override_mention_everyone", False)
TagOverride(tag) ==
    IF "override_mention_everyone" \in tag.keys THEN tag.override_mention_everyone
    ELSE FALSE

\* str.lower() on the tag names in use
Lower(name) ==
    CASE name = "News" -> "news"
      [] name = "NEWS" -> "news"
      [] name = "Sport" -> "sport"
      [] OTHER -> name

\* {tag["name"].lower() for tag in hashtags}
LowerNames(hashtags) == {Lower(hashtags[i].name) : i \in 1..Len(hashtags)}

get_excluded_hashtags(forwarder) ==
    IF "excluded_hashtags" \in forwarder.keys THEN forwarder.excluded_hashtags
    ELSE <<>>

get_forward_hashtags(forwarder) ==
    IF "forward_hashtags" \in forwarder.keys THEN forwarder.forward_hashtags
    ELSE <<>>

\* isinstance(value, int)
IsInt(value) == value.kind = "int"

Passed == [valid |-> TRUE, error |-> ""]
Failed(error) == [valid |-> FALSE, error |-> error]

\* an error message: the check that wrote it, and the forwarder names of its
\* prefix (none for a message appended without forwarder_error_string)
Message(names, error) == [check |-> error, names |-> names]

validate_openai_enabled(openai) ==
    IF openai.enabled
       /\ (\/ openai.api_key = Str("")
           \/ openai.organization = Str("")
           \/ openai.sentiment_analysis_prompt = None)
    THEN Failed("openai")
    ELSE Passed

validate_forwarder_types(forwarder) ==
    IF ~IsInt(forwarder.tg_channel_id) THEN Failed("tg_channel_id type")
    ELSE IF ~IsInt(forwarder.discord_channel_id) THEN Failed("discord_channel_id type")
    ELSE Passed

\* the source channel alone
CombinationOfSource(forwarder) == <<forwarder.tg_channel_id>>

\* the tuple (tg_channel_id, discord_channel_id)
Combination(forwarder) == <<forwarder.tg_channel_id, forwarder.discord_channel_id>>

\* the set keeps the combination of the forwarder before this one only
CombinationsOfPrevious(forwarder, forwarder_combinations) ==
    [valid |-> Combination(forwarder) \notin forwarder_combinations,
     error |-> IF Combination(forwarder) \in forwarder_combinations
               THEN "duplicate" ELSE "",
     forwarder_combinations |-> {Combination(forwarder)}]

\* the result, and the set forwarder_combinations after the call
validate_forwarder_combinations(forwarder, forwarder_combinations) ==
    IF Combination(forwarder) \in forwarder_combinations
    THEN [valid |-> FALSE, error |-> "duplicate",
          forwarder_combinations |-> forwarder_combinations]
    ELSE [valid |-> TRUE, error |-> "",
          forwarder_combinations |-> forwarder_combinations \cup {Combination(forwarder)}]

\* all() in the place of any()
OverrideOnEveryTag(forwarder, forward_hashtags) ==
    IF forwarder.mention_everyone
       /\ \A i \in 1..Len(forward_hashtags) : TagOverride(forward_hashtags[i])
    THEN Failed("override") ELSE Passed

validate_mention_everyone_and_override(forwarder, forward_hashtags) ==
    IF forwarder.mention_everyone
       /\ \E i \in 1..Len(forward_hashtags) : TagOverride(forward_hashtags[i])
    THEN Failed("override") ELSE Passed

\* the names are compared as they are written
OverlapOfWrittenNames(forwarder, forward_hashtags, excluded_hashtags) ==
    IF {forward_hashtags[i].name : i \in 1..Len(forward_hashtags)}
           \cap {excluded_hashtags[i].name : i \in 1..Len(excluded_hashtags)} # {}
    THEN Failed("overlap") ELSE Passed

validate_hashtags_overlap(forwarder, forward_hashtags, excluded_hashtags) ==
    IF LowerNames(forward_hashtags) \cap LowerNames(excluded_hashtags) # {}
    THEN Failed("overlap") ELSE Passed

\* only the first set recorded for the channel is compared
SharesWithFirst(existing, forward_hashtags) ==
    existing[1] \cap forward_hashtags # {}

\* for existing_hashtags in tg_channel_hashtags[tg_channel_id]: a non-empty
\* intersection with forward_hashtags
SharesWithExisting(existing, forward_hashtags) ==
    \E j \in 1..Len(existing) : existing[j] \cap forward_hashtags # {}

\* the loop of validate_shared_hashtags from forwarders[i] on;
\* tg_channel_hashtags is the dict tg_channel_id -> list of name sets
RECURSIVE SharedHashtagsLoop(_, _, _)
SharedHashtagsLoop(forwarders, i, tg_channel_hashtags) ==
    IF i > Len(forwarders) THEN Passed
    ELSE LET forwarder == forwarders[i]
             tg_channel_id == forwarder.tg_channel_id
             forward_hashtags ==
                 IF "forward_hashtags" \in forwarder.keys
                    /\ forwarder.forward_hashtags # <<>>
                 THEN LowerNames(forwarder.forward_hashtags)
                 ELSE {}
             existing == DictGet(tg_channel_hashtags, tg_channel_id, <<>>)
         IN IF forward_hashtags = {}
            THEN SharedHashtagsLoop(forwarders, i + 1, tg_channel_hashtags)
            ELSE IF ~DictHas(tg_channel_hashtags, tg_channel_id)
            THEN SharedHashtagsLoop(forwarders, i + 1,
                     DictSet(tg_channel_hashtags, tg_channel_id, <<forward_hashtags>>))
            ELSE IF SharesWithExisting(existing, forward_hashtags)
            THEN Failed("shared")
            ELSE SharedHashtagsLoop(forwarders, i + 1,
                     DictSet(tg_channel_hashtags, tg_channel_id,
                             Append(existing, forward_hashtags)))

validate_shared_hashtags(forwarders) == SharedHashtagsLoop(forwarders, 1, <<>>)

\* only the first failed check of the forwarder is reported
AppendedFirstOnly(forwarder_error_string, results) ==
    LET failed == SelectSeq(results, LAMBDA r : ~r.valid)
    IN IF failed = <<>> THEN <<>>
       ELSE <<Message(forwarder_error_string, failed[1].error)>>

\* what one iteration appends to errors: a message for each failed check, in
\* the order of the checks, each after the prefix forwarder_error_string
Appended(forwarder_error_string, results) ==
    LET failed == SelectSeq(results, LAMBDA r : ~r.valid)
    IN [k \in 1..Len(failed) |-> Message(forwarder_error_string, failed[k].error)]

\* one iteration of the loop of validate_config; st holds the local
\* variables valid, errors, forwarder_combinations, forwarder_error_string
CheckForwarder(forwarder, st) ==
    LET forwarder_error_string ==
            Append(st.forwarder_error_string, forwarder.forwarder_name)
        forward_hashtags == get_forward_hashtags(forwarder)
        hashtags_set ==
            IF Len(forward_hashtags) <= 0 /\ forwarder.forward_everything = FALSE
            THEN Failed("forward_hashtags") ELSE Passed
        excluded_hashtags == get_excluded_hashtags(forwarder)
        types == validate_forwarder_types(forwarder)
        combinations ==
            validate_forwarder_combinations(forwarder, st.forwarder_combinations)
        mention == validate_mention_everyone_and_override(forwarder, forward_hashtags)
        overlap == validate_hashtags_overlap(forwarder, forward_hashtags,
                                             excluded_hashtags)
        results == <<hashtags_set, types,
                     [valid |-> combinations.valid, error |-> combinations.error],
                     mention, overlap>>
    IN [valid |-> overlap.valid,
        errors |-> st.errors \o Appended(forwarder_error_string, results),
        forwarder_combinations |-> combinations.forwarder_combinations,
        forwarder_error_string |-> forwarder_error_string]

RECURSIVE ForwardersLoop(_, _, _)
ForwardersLoop(forwarders, i, st) ==
    IF i > Len(forwarders) THEN st
    ELSE ForwardersLoop(forwarders, i + 1, CheckForwarder(forwarders[i], st))

\* the flag of the last check made is returned as it is
ReturnLastValid(valid, errors) == [valid |-> valid, errors |-> errors]

\* valid = not errors; return valid, errors
Return(valid, errors) == [valid |-> errors = <<>>, errors |-> errors]

validate_config(config_data) ==
    LET forwarders == config_data.telegram_forwarders
        openai == validate_openai_enabled(config_data.openai)
        st == ForwardersLoop(forwarders, 1,
                  [valid |-> openai.valid,
                   errors |-> IF openai.valid THEN <<>>
                              ELSE <<Message(<<>>, openai.error)>>,
                   forwarder_combinations |-> {},
                   forwarder_error_string |-> <<>>])
        shared == validate_shared_hashtags(forwarders)
        errors == IF shared.valid THEN st.errors
                  ELSE Append(st.errors, Message(<<>>, shared.error))
    IN Return(shared.valid, errors)

(***************************************************************************)
(* Config.load.                                                            *)
(***************************************************************************)
required_keys == {"application", "logger", "telegram", "discord", "telegram_forwarders"}

\* every attribute assigned from the document
LoadedConfig(config_data) ==
    [app |-> "loaded", api |-> "loaded", logger |-> "loaded", telegram |-> "loaded",
     discord |-> "loaded", openai |-> "loaded",
     telegram_forwarders |-> config_data.telegram_forwarders]

\* how a call of load on the instance "self" ends with the document
\* config_data at _file_path: sys.exit(1), an exception that nothing
\* catches, or the return; and the attributes of self at that point
Load(self, config_data) ==
    LET stopped(outcome) ==
            [outcome |-> outcome, self |-> self, validated |-> FALSE,
             valid |-> FALSE, errors |-> <<>>]
    IN IF config_data.kind \in {"missing", "unparsable"} THEN stopped("exit")
       \* yaml.safe_load gives None for an empty document: key not in None
       ELSE IF config_data.kind = "empty" THEN stopped("TypeError")
       ELSE IF ~(required_keys \subseteq config_data.sections) THEN stopped("exit")
       \* config["openai"] in validate_config
       ELSE IF "openai" \notin config_data.sections THEN stopped("KeyError")
       ELSE LET v == validate_config(config_data)
                validated(outcome, attributes) ==
                    [outcome |-> outcome, self |-> attributes, validated |-> TRUE,
                     valid |-> v.valid, errors |-> v.errors]
            IN IF ~v.valid THEN validated("exit", self)
               \* self.app is assigned, then config_data["api"] raises
               ELSE IF "api" \notin config_data.sections
               THEN validated("KeyError", [self EXCEPT !.app = "loaded"])
               ELSE validated("returned", LoadedConfig(config_data))

load ==
    /\ LET l == Load(config, config_file)
       IN /\ config' = l.self
          /\ config_call' = [op |-> "load", outcome |-> l.outcome,
                             validated |-> l.validated, valid |-> l.valid,
                             errors |-> l.errors]
    /\ UNCHANGED config_file
    /\ UNCHANGED <<hvars, tvars, rvars>>

(***************************************************************************)
(* The documents load is given.                                            *)
(***************************************************************************)
\* longest telegram_forwarders list
MaxForwarders == 3

\* forwarder_name is unique: the forwarder at position i is named after i
ForwarderName(i) == <<"A", "B", "C", "D", "E">>[i]

Tag(name) == [name |-> name, keys |-> {"name"}, override_mention_everyone |-> FALSE]
OverrideTag(name, flag) ==
    [name |-> name, keys |-> {"name", "override_mention_everyone"},
     override_mention_everyone |-> flag]

\* (tg_channel_id, discord_channel_id): one source to two destinations, a
\* second source, and an id written as a string in either place
Ids ==
    {<<IntVal(1), IntVal(1)>>, <<IntVal(1), IntVal(2)>>, <<IntVal(2), IntVal(1)>>,
     <<Str("1"), IntVal(1)>>, <<IntVal(2), Str("2")>>}

Policy(forward_everything, mention_everyone, keys, forward_hashtags, excluded_hashtags) ==
    [forward_everything |-> forward_everything, mention_everyone |-> mention_everyone,
     keys |-> keys, forward_hashtags |-> forward_hashtags,
     excluded_hashtags |-> excluded_hashtags]

\* the forwarding policies: no hashtag keys at all, an empty list, lists
\* that meet or miss each other in either case of the letters, the override
\* flag absent, false and true, with mention_everyone on and off
Policies ==
    {Policy(TRUE, TRUE, {}, <<>>, <<>>),
     Policy(FALSE, FALSE, {}, <<>>, <<>>),
     Policy(FALSE, TRUE, {"forward_hashtags", "excluded_hashtags"}, <<>>, <<Tag("news")>>),
     Policy(FALSE, TRUE, {"forward_hashtags", "excluded_hashtags"},
            <<Tag("News")>>, <<Tag("Sport")>>),
     Policy(TRUE, FALSE, {"forward_hashtags"}, <<OverrideTag("sport", TRUE)>>, <<>>),
     Policy(FALSE, TRUE, {"forward_hashtags"},
            <<OverrideTag("sport", FALSE), OverrideTag("news", TRUE)>>, <<>>),
     Policy(FALSE, FALSE, {"forward_hashtags", "excluded_hashtags"},
            <<Tag("news")>>, <<Tag("NEWS")>>),
     Policy(TRUE, TRUE, {"forward_hashtags", "excluded_hashtags"},
            <<OverrideTag("NEWS", TRUE)>>, <<Tag("news")>>)}

\* the ids and the policies of the longer lists: the integer ids and the
\* string in the place of tg_channel_id; no forward_hashtags, the lists
\* {news}, {sport} and {sport, news}, one of them against mention_everyone
CoreIds ==
    {<<IntVal(1), IntVal(1)>>, <<IntVal(1), IntVal(2)>>, <<IntVal(2), IntVal(1)>>,
     <<Str("1"), IntVal(1)>>}

CorePolicies ==
    {Policy(FALSE, FALSE, {}, <<>>, <<>>),
     Policy(FALSE, TRUE, {"forward_hashtags", "excluded_hashtags"},
            <<Tag("News")>>, <<Tag("Sport")>>),
     Policy(TRUE, FALSE, {"forward_hashtags"}, <<OverrideTag("sport", TRUE)>>, <<>>),
     Policy(FALSE, TRUE, {"forward_hashtags"},
            <<OverrideTag("sport", FALSE), OverrideTag("news", TRUE)>>, <<>>)}

ForwarderDocument(forwarder_name, ids, policy) ==
    [forwarder_name |-> forwarder_name,
     tg_channel_id |-> ids[1], discord_channel_id |-> ids[2],
     forward_everything |-> policy.forward_everything,
     mention_everyone |-> policy.mention_everyone,
     keys |-> policy.keys,
     forward_hashtags |-> policy.forward_hashtags,
     excluded_hashtags |-> policy.excluded_hashtags]

\* the telegram_forwarders list of n forwarders with the ids and the policy
\* chosen for each position
ForwarderList(n, choice) ==
    [i \in 1..n |-> ForwarderDocument(ForwarderName(i), choice[i][1], choice[i][2])]

\* the telegram_forwarders lists of n forwarders
ForwarderLists(n) ==
    {ForwarderList(n, choice) : choice \in [1..n -> Ids \X Policies]}

Sections == required_keys \cup {"api", "openai"}

Mapping(sections, openai, forwarders) ==
    [kind |-> "mapping", sections |-> sections, openai |-> openai,
     telegram_forwarders |-> forwarders]

\* a key or a prompt that is there, that is the empty string, that is null
Settings == {Str("set"), Str(""), None}

OpenAISections ==
    [enabled : BOOLEAN, api_key : Settings, organization : Settings,
     sentiment_analysis_prompt : Settings]

\* complete documents with every openai section, around at most one forwarder
OpenAIDocuments ==
    {Mapping(Sections, openai, forwarders) :
        openai \in OpenAISections, forwarders \in ForwarderLists(0) \cup ForwarderLists(1)}

\* documents that lack top-level sections (a section that is not there
\* has no content), around at most one forwarder
PartialDocuments ==
    UNION {{Mapping(sections, DisabledOpenAI, forwarders) :
               forwarders \in IF "telegram_forwarders" \in sections
                              THEN ForwarderLists(0) \cup ForwarderLists(1)
                              ELSE ForwarderLists(0)} :
           sections \in SUBSET Sections}

UnparsableFile == [MissingFile EXCEPT !.kind = "unparsable"]
EmptyDocument == [MissingFile EXCEPT !.kind = "empty"]

\* an instance that an earlier load filled from an earlier document
EarlierConfig ==
    [app |-> "earlier", api |-> "earlier", logger |-> "earlier", telegram |-> "earlier",
     discord |-> "earlier", openai |-> "earlier", telegram_forwarders |-> <<>>]

\* the instance is new (load called by __init__) and finds a complete document
\* with a list of up to MaxForwarders forwarders of the core ids and policies
\* or with a list of two forwarders of any ids and policies, or one of the
\* documents around at most one forwarder; or it was loaded before (load
\* called by set_version) and finds one of the latter
ConfigInit ==
    /\ \/ /\ config = NewConfig
          /\ \E n \in 0..MaxForwarders :
                 \E choice \in [1..n -> CoreIds \X CorePolicies] :
                     config_file = Mapping(Sections, DisabledOpenAI,
                                           ForwarderList(n, choice))
       \/ /\ config = NewConfig
          /\ config_file \in {Mapping(Sections, DisabledOpenAI, forwarders) :
                                  forwarders \in ForwarderLists(2)}
       \/ /\ config = NewConfig
          /\ config_file \in OpenAIDocuments \cup PartialDocuments
                             \cup {MissingFile, UnparsableFile, EmptyDocument}
       \/ /\ config = EarlierConfig
          /\ config_file \in OpenAIDocuments \cup PartialDocuments
                             \cup {MissingFile, UnparsableFile, EmptyDocument}
    /\ config_call = NoConfigCall
    /\ NoTasks
    /\ NoRegistry
    /\ mapping_data_cache = NoCache
    /\ messages_history_file = AbsentFile
    /\ missed_messages_history_file = AbsentFile
    /\ last = NoCall
    /\ process = NewProcess
    /\ calls = 0

ConfigNext == load

ConfigSpec == ConfigInit /\ [][ConfigNext]_vars

(***************************************************************************)
(* What the specification says of a document, in its own terms.            *)
(***************************************************************************)
\* load has called validate_config on the document and has its result
Validated == config_call.op = "load" /\ config_call.validated

ForwardList(forwarder) ==
    IF "forward_hashtags" \in forwarder.keys THEN forwarder.forward_hashtags ELSE <<>>
ExcludedList(forwarder) ==
    IF "excluded_hashtags" \in forwarder.keys THEN forwarder.excluded_hashtags ELSE <<>>
\* tag names without regard to case
ForwardNames(forwarder) ==
    {Lower(ForwardList(forwarder)[k].name) : k \in 1..Len(ForwardList(forwarder))}
ExcludedNames(forwarder) ==
    {Lower(ExcludedList(forwarder)[k].name) : k \in 1..Len(ExcludedList(forwarder))}

IntegerIds(forwarder) ==
    forwarder.tg_channel_id.kind = "int" /\ forwarder.discord_channel_id.kind = "int"
\* I1
HashtagsOrEverything(forwarder) ==
    forwarder.forward_everything \/ ForwardList(forwarder) # <<>>
\* I3
NoOverlap(forwarder) == ForwardNames(forwarder) \cap ExcludedNames(forwarder) = {}
\* I4
NoOverrideUnderMentionEveryone(forwarder) ==
    ~(/\ forwarder.mention_everyone
      /\ \E k \in 1..Len(ForwardList(forwarder)) :
             /\ "override_mention_everyone" \in ForwardList(forwarder)[k].keys
             /\ ForwardList(forwarder)[k].override_mention_everyone)
SamePair(f, g) ==
    f.tg_channel_id = g.tg_channel_id /\ f.discord_channel_id = g.discord_channel_id
\* I2 at position i: no earlier forwarder has the same pair
FirstOfItsPair(forwarders, i) ==
    \A j \in 1..(i - 1) : ~SamePair(forwarders[j], forwarders[i])
\* I5
NoSharedHashtags(forwarders) ==
    \A i, j \in 1..Len(forwarders) :
        (i < j /\ forwarders[i].tg_channel_id = forwarders[j].tg_channel_id)
            => ForwardNames(forwarders[i]) \cap ForwardNames(forwarders[j]) = {}
Present(setting) == setting \notin {Str(""), None}
OpenAIConfigured(openai) ==
    \/ ~openai.enabled
    \/ /\ Present(openai.api_key)
       /\ Present(openai.organization)
       /\ Present(openai.sentiment_analysis_prompt)

\* the messages of a check written during the iteration for forwarder i:
\* their prefix has the names of the forwarders 1..i
MessagesOf(errors, i, checks) ==
    {k \in 1..Len(errors) : errors[k].check \in checks /\ Len(errors[k].names) = i}

(***************************************************************************)
(* C11.  validate returns (true, []) for every configuration whose         *)
(* forwarders have integer ids, pairwise distinct (tg, discord) pairs,     *)
(* forward_hashtags when forward_everything is false, forward and excluded *)
(* names disjoint, no override under mention_everyone, pairwise disjoint   *)
(* forward names among forwarders of one tg_channel_id, and whose OpenAI   *)
(* feature is disabled or fully configured.                                *)
(***************************************************************************)
C11_ValidConfigAccepted ==
    LET forwarders == config_file.telegram_forwarders
    IN (/\ Validated
        /\ \A i \in 1..Len(forwarders) :
               /\ IntegerIds(forwarders[i])
               /\ FirstOfItsPair(forwarders, i)
               /\ HashtagsOrEverything(forwarders[i])
               /\ NoOverlap(forwarders[i])
               /\ NoOverrideUnderMentionEveryone(forwarders[i])
        /\ NoSharedHashtags(forwarders)
        /\ OpenAIConfigured(config_file.openai))
       => (config_call.valid /\ config_call.errors = <<>>)

\* three forwarders accepted, two of them on one source channel with
\* hashtags that do not meet
C11_Witness ==
    LET forwarders == config_file.telegram_forwarders
    IN /\ Validated /\ config_call.valid /\ config_call.errors = <<>>
       /\ Len(forwarders) = 3
       /\ \E i, j \in 1..3 :
              /\ i < j
              /\ forwarders[i].tg_channel_id = forwarders[j].tg_channel_id
              /\ ForwardNames(forwarders[i]) # {}
              /\ ForwardNames(forwarders[j]) # {}

(***************************************************************************)
(* C12.  A forwarder whose (tg_channel_id, discord_channel_id) pair is     *)
(* that of a forwarder before it, next to it or not, gets one duplicate    *)
(* combination error whatever its other fields, and validate returns      *)
(* false; a forwarder that is the first of its pair gets none: k           *)
(* forwarders of one pair give k - 1 errors.                               *)
(***************************************************************************)
C12_DuplicateCombinations ==
    LET forwarders == config_file.telegram_forwarders
    IN Validated =>
        \A i \in 1..Len(forwarders) :
            IF FirstOfItsPair(forwarders, i)
            THEN MessagesOf(config_call.errors, i, {"duplicate"}) = {}
            ELSE /\ Cardinality(MessagesOf(config_call.errors, i, {"duplicate"})) = 1
                 /\ ~config_call.valid

\* the first and the third forwarder have one pair, the second another
C12_Witness ==
    LET forwarders == config_file.telegram_forwarders
    IN /\ Validated /\ Len(forwarders) = 3
       /\ SamePair(forwarders[1], forwarders[3])
       /\ ~SamePair(forwarders[1], forwarders[2])
       /\ Cardinality(MessagesOf(config_call.errors, 3, {"duplicate"})) = 1
       /\ ~config_call.valid

(***************************************************************************)
(* C13.  validate reports a shared-hashtag error exactly when two          *)
(* forwarders of one tg_channel_id have forward_hashtags name sets that    *)
(* meet, case ignored, however many other forwarders there are and in      *)
(* whatever order.                                                         *)
(***************************************************************************)
C13_SharedHashtags ==
    Validated =>
        ((\E k \in 1..Len(config_call.errors) : config_call.errors[k].check = "shared")
            <=> ~NoSharedHashtags(config_file.telegram_forwarders))

\* three forwarders of one source channel: the third shares a name with the
\* second and none with the first
C13_Witness ==
    LET forwarders == config_file.telegram_forwarders
    IN /\ Validated /\ Len(forwarders) = 3
       /\ forwarders[1].tg_channel_id = forwarders[2].tg_channel_id
       /\ forwarders[2].tg_channel_id = forwarders[3].tg_channel_id
       /\ ForwardNames(forwarders[1]) # {}
       /\ ForwardNames(forwarders[1]) \cap ForwardNames(forwarders[2]) = {}
       /\ ForwardNames(forwarders[1]) \cap ForwardNames(forwarders[3]) = {}
       /\ ForwardNames(forwarders[2]) \cap ForwardNames(forwarders[3]) # {}
       /\ \E k \in 1..Len(config_call.errors) : config_call.errors[k].check = "shared"

(***************************************************************************)
(* C14.  A forwarder with forward_everything false and a forward_hashtags  *)
(* list that is empty or absent makes validate return false with an error  *)
(* for that forwarder, wherever it stands in the list.                     *)
(***************************************************************************)
C14_HashtagsRequired ==
    LET forwarders == config_file.telegram_forwarders
    IN Validated =>
        \A i \in 1..Len(forwarders) :
            (forwarders[i].forward_everything = FALSE /\ ForwardList(forwarders[i]) = <<>>)
                => /\ ~config_call.valid
                   /\ MessagesOf(config_call.errors, i, {"forward_hashtags"}) # {}

\* the third forwarder alone has neither forward_everything nor hashtags,
\* and no other check fails
C14_Witness ==
    LET forwarders == config_file.telegram_forwarders
    IN /\ Validated /\ Len(forwarders) = 3
       /\ HashtagsOrEverything(forwarders[1]) /\ HashtagsOrEverything(forwarders[2])
       /\ ~HashtagsOrEverything(forwarders[3])
       /\ Len(config_call.errors) = 1
       /\ MessagesOf(config_call.errors, 3, {"forward_hashtags"}) = {1}
       /\ ~config_call.valid

(***************************************************************************)
(* C15.  A forwarder with mention_everyone true and at least one hashtag   *)
(* rule with override_mention_everyone true makes validate return false    *)
(* with a conflict error for that forwarder, wherever it stands.           *)
(***************************************************************************)
C15_OverrideConflict ==
    LET forwarders == config_file.telegram_forwarders
    IN Validated =>
        \A i \in 1..Len(forwarders) :
            ~NoOverrideUnderMentionEveryone(forwarders[i])
                => /\ ~config_call.valid
                   /\ MessagesOf(config_call.errors, i, {"override"}) # {}

\* the last of three forwarders has mention_everyone, a rule that overrides
\* it and a rule that does not
C15_Witness ==
    LET forwarders == config_file.telegram_forwarders
    IN /\ Validated /\ Len(forwarders) = 3
       /\ ~NoOverrideUnderMentionEveryone(forwarders[3])
       /\ \E k \in 1..Len(ForwardList(forwarders[3])) :
              ~TagOverride(ForwardList(forwarders[3])[k])
       /\ MessagesOf(config_call.errors, 3, {"override"}) # {}
       /\ ~config_call.valid

(***************************************************************************)
(* C16.  The per-forwarder checks are accumulated: for every forwarder and *)
(* each of the five checks (types, I2, I4, I3, I1) the error list holds    *)
(* one message when the forwarder violates the check and none when it does *)
(* not, whatever the other checks give; the flag is true exactly when the  *)
(* error list is empty.                                                    *)
(***************************************************************************)
C16_ChecksAccumulated ==
    LET forwarders == config_file.telegram_forwarders
        Count(i, checks, violated) ==
            Cardinality(MessagesOf(config_call.errors, i, checks))
                = IF violated THEN 1 ELSE 0
    IN Validated =>
        /\ \A i \in 1..Len(forwarders) :
               /\ Count(i, {"tg_channel_id type", "discord_channel_id type"},
                        ~IntegerIds(forwarders[i]))
               /\ Count(i, {"duplicate"}, ~FirstOfItsPair(forwarders, i))
               /\ Count(i, {"override"}, ~NoOverrideUnderMentionEveryone(forwarders[i]))
               /\ Count(i, {"overlap"}, ~NoOverlap(forwarders[i]))
               /\ Count(i, {"forward_hashtags"}, ~HashtagsOrEverything(forwarders[i]))
        /\ (config_call.valid <=> config_call.errors = <<>>)

\* the second forwarder violates four checks at once (types, I2, I4, I3) and
\* has four messages
C16_Witness ==
    LET forwarders == config_file.telegram_forwarders
    IN /\ Validated /\ Len(forwarders) = 2
       /\ ~IntegerIds(forwarders[2])
       /\ ~FirstOfItsPair(forwarders, 2)
       /\ ~NoOverrideUnderMentionEveryone(forwarders[2])
       /\ ~NoOverlap(forwarders[2])
       /\ Cardinality(MessagesOf(config_call.errors, 2,
              {"tg_channel_id type", "discord_channel_id type", "duplicate",
               "override", "overlap"})) = 4

(***************************************************************************)
(* C17.  Every per-forwarder error message is prefixed with the            *)
(* forwarder_name of the forwarder that violates the check and names no    *)
(* other forwarder.                                                        *)
(***************************************************************************)
C17_MessageNamesItsForwarder ==
    LET forwarders == config_file.telegram_forwarders
        Violates(forwarder, i, check) ==
            CASE check \in {"tg_channel_id type", "discord_channel_id type"} ->
                     ~IntegerIds(forwarder)
              [] check = "duplicate" -> ~FirstOfItsPair(forwarders, i)
              [] check = "override" -> ~NoOverrideUnderMentionEveryone(forwarder)
              [] check = "overlap" -> ~NoOverlap(forwarder)
              [] check = "forward_hashtags" -> ~HashtagsOrEverything(forwarder)
              [] OTHER -> FALSE
    IN Validated =>
        \A k \in 1..Len(config_call.errors) :
            config_call.errors[k].check \notin {"openai", "shared"} =>
                \E i \in 1..Len(forwarders) :
                    /\ config_call.errors[k].names = <<forwarders[i].forwarder_name>>
                    /\ Violates(forwarders[i], i, config_call.errors[k].check)

(***************************************************************************)
(* C18.  load fails on every bad document and leaves the configuration     *)
(* untouched: with the file missing or unparsable, a required section      *)
(* absent, or validate returning false, the process exits and no attribute *)
(* is assigned or changed; a document with the five required sections that *)
(* passes validate makes load return with every attribute assigned.        *)
(***************************************************************************)
C18_LoadAllOrNothing ==
    [][LET Complete == /\ config_file.kind = "mapping"
                       /\ required_keys \subseteq config_file.sections
           \* validate_config reads the openai section
           Validates == "openai" \in config_file.sections
           Assigned(self) ==
               \A attribute \in {"app", "api", "logger", "telegram", "discord",
                                 "openai"} :
                   self[attribute] = "loaded"
       IN config_call'.op = "load" =>
            /\ (\/ config_file.kind \in {"missing", "unparsable"}
                \/ config_file.kind = "mapping" /\ ~Complete
                \/ Complete /\ Validates /\ ~validate_config(config_file).valid)
                   => (config_call'.outcome = "exit" /\ config' = config)
            /\ (Complete /\ Validates /\ validate_config(config_file).valid)
                   => /\ config_call'.outcome = "returned"
                      /\ Assigned(config')
                      /\ config'.telegram_forwarders = config_file.telegram_forwarders
      ]_vars

(***************************************************************************)
(* C19.  With the OpenAI feature enabled and at least one of api_key,      *)
(* organization, sentiment_analysis_prompt not present (empty or null),    *)
(* validate returns false with the OpenAI error; with the feature          *)
(* disabled, or enabled with all three present, there is no such error.    *)
(***************************************************************************)
C19_OpenAICheck ==
    LET reported == \E k \in 1..Len(config_call.errors) :
                        config_call.errors[k].check = "openai"
    IN Validated =>
        IF OpenAIConfigured(config_file.openai)
        THEN ~reported
        ELSE reported /\ ~config_call.valid

(***************************************************************************)
(* C20.  clean_history_data empties both files whenever the history file   *)
(* or the missed file is over the threshold, whatever the size or the      *)
(* existence of the other file: after the call both files exist with size  *)
(* zero; when neither is over the threshold neither file is changed.       *)
(***************************************************************************)
C20_EitherOversizeEmptiesBoth ==
    [][Called("clean_history_data") =>
          IF \/ FileSize(messages_history_file) > history_size_limit
             \/ FileSize(missed_messages_history_file) > history_size_limit
          THEN /\ messages_history_file' = EmptyFile
               /\ missed_messages_history_file' = EmptyFile
          ELSE UNCHANGED <<messages_history_file, missed_messages_history_file>>
     ]_vars

(***************************************************************************)
(* C25.  The missed-messages file written by a record_failure holds the    *)
(* failure just recorded as [destination_channel_id, failure_description]  *)
(* and holds failures only: no source id mapped to a destination message   *)
(* id.                                                                     *)
(***************************************************************************)
C25_MissedLedgerContent ==
    (last.op = "save_missed_message" /\ last.raised = "" /\ last.outcome = "ok") =>
        /\ missed_messages_history_file.st = "json"
        /\ \E entry \in Entries(missed_messages_history_file.doc) :
               /\ entry[1] = last.f
               /\ KeyInt(entry[2]) = last.s
               /\ entry[3].kind = "list" /\ entry[3].n = last.d
        /\ \A entry \in Entries(missed_messages_history_file.doc) :
               entry[3].kind = "list"

(***************************************************************************)
(* C26.  validate reports an overlap error for a forwarder if and only if  *)
(* some name occurs both in its forward_hashtags and in its                *)
(* excluded_hashtags, letters compared without regard to case ("News" and  *)
(* "news" overlap); a forwarder with no excluded_hashtags never gets it.   *)
(***************************************************************************)
C26_OverlapIgnoresCase ==
    LET forwarders == config_file.telegram_forwarders
        Spellings == {{"news", "News", "NEWS"}, {"sport", "Sport"}}
        SameName(a, b) == \E spelling \in Spellings : a \in spelling /\ b \in spelling
        Overlaps(forwarder) ==
            \E j \in 1..Len(ForwardList(forwarder)), k \in 1..Len(ExcludedList(forwarder)) :
                SameName(ForwardList(forwarder)[j].name, ExcludedList(forwarder)[k].name)
    IN Validated =>
        \A i \in 1..Len(forwarders) :
            /\ MessagesOf(config_call.errors, i, {"overlap"}) # {} <=> Overlaps(forwarders[i])
            /\ ExcludedList(forwarders[i]) = <<>>
                   => MessagesOf(config_call.errors, i, {"overlap"}) = {}

\* a forwarder that forwards "News" and excludes "NEWS" has the error, next
\* to a forwarder that forwards "News" and excludes "Sport" and has none
C26_Witness ==
    LET forwarders == config_file.telegram_forwarders
        Names(hashtags) == {hashtags[k].name : k \in 1..Len(hashtags)}
    IN /\ Validated /\ Len(forwarders) = 2
       /\ \E i, j \in 1..2 :
              /\ Names(ForwardList(forwarders[i])) \cap Names(ExcludedList(forwarders[i])) = {}
              /\ MessagesOf(config_call.errors, i, {"overlap"}) # {}
              /\ ExcludedList(forwarders[j]) # <<>>
              /\ MessagesOf(config_call.errors, j, {"overlap"}) = {}

(***************************************************************************)
(* The history store on the event loop: each call is a coroutine that      *)
(* gives way to the others at its awaits (the lock, the read of the        *)
(* history file, the open, the write and the close of aiofiles, which run  *)
(* in worker threads).  A step runs one coroutine from an await to its     *)
(* next one.  _lock is taken in load_mapping_data only.                    *)
(***************************************************************************)
\* two handles opened with "w" write from offset 0 each: a flush of fewer
\* bytes than the file holds leaves the rest of the longer text behind it
Flush(file, buf) ==
    IF file.st \in {"json", "garbled"} /\ FileSize(file) > 1 + CountMembers(buf)
    THEN [st |-> "garbled", doc |-> file.doc]
    ELSE JsonFile(buf)

\* what no step of a coroutine of the history store changes
OutsideTasks ==
    UNCHANGED <<missed_messages_history_file, last, process, calls, cvars, rvars>>

\* the task is created; its first await is the lock of load_mapping_data
Call(t, op, forwarder_name, tg_message_id, discord_message_id) ==
    /\ tasks[t].pc = "idle"
    /\ \A u \in 1..(t - 1) : tasks[u].pc # "idle"
    /\ tasks' = [tasks EXCEPT ![t] =
                    [NoTask EXCEPT !.op = op, !.f = forwarder_name, !.s = tg_message_id,
                                   !.d = discord_message_id, !.pc = "acquire"]]
    /\ UNCHANGED <<mapping_data_cache, messages_history_file, lock, loads>>
    /\ OutsideTasks

\* load_mapping_data has returned mapping_data to task t: the rest of the
\* coroutine up to its next await
Returned(t, mapping_data, populated) ==
    IF tasks[t].op = "save_mapping_data"
    THEN /\ mapping_data_cache' =
                Cache(SetEntry(mapping_data, tasks[t].f, tasks[t].s, IntVal(tasks[t].d)))
         /\ tasks' = [tasks EXCEPT ![t].pc = "open", ![t].cache = populated]
    ELSE /\ mapping_data_cache' = Cache(mapping_data)
         /\ tasks' = [tasks EXCEPT ![t].pc = "done", ![t].cache = populated,
                                   ![t].outcome = "returned"]

\* async with self._lock: with the cache loaded the coroutine goes through
\* without a pause; with the cache None it keeps the lock over the read
Acquire(t) ==
    /\ tasks[t].pc = "acquire"
    /\ lock = 0
    /\ IF mapping_data_cache.loaded
       THEN /\ Returned(t, mapping_data_cache.data, loads.populated)
            /\ UNCHANGED lock
       ELSE /\ lock' = t
            /\ tasks' = [tasks EXCEPT ![t].pc = "read"]
            /\ UNCHANGED mapping_data_cache
    /\ UNCHANGED <<messages_history_file, loads>>
    /\ OutsideTasks

\* the read of the history file ends; the lock is released either way
Read(t, rio) ==
    /\ tasks[t].pc = "read"
    /\ rio = "read_fails" => ReadHappens(mapping_data_cache, messages_history_file)
    /\ LET ld == load_mapping_data(mapping_data_cache, messages_history_file, rio)
           after == [reads |-> loads.reads
                                   + IF messages_history_file.st = "absent" THEN 0 ELSE 1,
                     populated |-> loads.populated + IF ld.raised = "" THEN 1 ELSE 0]
       IN /\ loads' = after
          /\ IF ld.raised # ""
             THEN /\ tasks' = [tasks EXCEPT ![t].pc = "done", ![t].raised = ld.raised]
                  /\ UNCHANGED mapping_data_cache
             ELSE Returned(t, ld.cache.data, after.populated)
    /\ lock' = 0
    /\ UNCHANGED messages_history_file
    /\ OutsideTasks

\* aiofiles.open(MESSAGES_HISTORY_FILE, "w") ends: the file is truncated, and
\* json.dumps(mapping_data) is evaluated for the write that is called next
Open(t, wio) ==
    /\ tasks[t].pc = "open"
    /\ IF wio = "ok"
       THEN /\ messages_history_file' = EmptyFile
            /\ tasks' = [tasks EXCEPT ![t].pc = "write",
                                      ![t].buf = json_dumps(mapping_data_cache.data)]
       ELSE /\ tasks' = [tasks EXCEPT ![t].pc = "done", ![t].outcome = "open_fails"]
            /\ UNCHANGED messages_history_file
    /\ UNCHANGED <<mapping_data_cache, lock, loads>>
    /\ OutsideTasks

\* the write ends: the text is in the buffer of the handle
Write(t) ==
    /\ tasks[t].pc = "write"
    /\ tasks' = [tasks EXCEPT ![t].pc = "close"]
    /\ UNCHANGED <<mapping_data_cache, messages_history_file, lock, loads>>
    /\ OutsideTasks

\* the close ends: the buffer is flushed; self._mapping_data_cache = mapping_data
Close(t) ==
    /\ tasks[t].pc = "close"
    /\ messages_history_file' = Flush(messages_history_file, tasks[t].buf)
    /\ tasks' = [tasks EXCEPT ![t].pc = "done", ![t].outcome = "ok"]
    /\ UNCHANGED <<mapping_data_cache, lock, loads>>
    /\ OutsideTasks

\* clean_history_data has no await: the whole call is one step, and it
\* takes no lock
Clean(t) ==
    /\ tasks[t].pc = "idle"
    /\ \A u \in 1..(t - 1) : tasks[u].pc # "idle"
    /\ LET outcome == CleanOutcome(messages_history_file, missed_messages_history_file)
       IN /\ tasks' = [tasks EXCEPT ![t] =
                          [NoTask EXCEPT !.op = "clean_history_data", !.pc = "done",
                                         !.outcome = outcome]]
          /\ messages_history_file' =
                 IF outcome = "rotated" THEN EmptyFile ELSE messages_history_file
    /\ UNCHANGED <<mapping_data_cache, lock, loads>>
    /\ OutsideTasks

CallRecordSuccess ==
    \E t \in Tasks, f \in Forwarders :
        Call(t, "save_mapping_data", f, 7, 200)
CallGetDestinationId ==
    \E t \in Tasks : Call(t, "get_discord_message_id", "f1", 7, 0)
Rotate == \E t \in Tasks : Clean(t)
TakeLock == \E t \in Tasks : Acquire(t)
ReadEnds == \E t \in Tasks, rio \in ReadOutcomes : Read(t, rio)
OpenEnds == \E t \in Tasks, wio \in {"ok", "open_fails"} : Open(t, wio)
WriteEnds == \E t \in Tasks : Write(t)
CloseEnds == \E t \in Tasks : Close(t)

TaskInit ==
    /\ NoTasks
    /\ NoRegistry
    /\ mapping_data_cache = NoCache
    /\ messages_history_file \in InitialHistoryFiles \cup {EmptyFile}
    /\ missed_messages_history_file = AbsentFile
    /\ last = NoCall
    /\ process = NewProcess
    /\ calls = 0
    /\ config_file = MissingFile
    /\ config = NewConfig
    /\ config_call = NoConfigCall

TaskNext ==
    \/ CallRecordSuccess
    \/ CallGetDestinationId
    \/ Rotate
    \/ TakeLock
    \/ ReadEnds
    \/ OpenEnds
    \/ WriteEnds
    \/ CloseEnds

TaskSpec == TaskInit /\ [][TaskNext]_vars

\* the record_success tasks between their read of the cache and the end of
\* their write to the history file
Writing(running) ==
    {t \in Tasks : /\ running[t].op = "save_mapping_data"
                   /\ running[t].pc \in {"open", "write", "close"}}

C22_NoLostUpdate ==
    \A t, u \in Tasks :
        (/\ tasks[t].op = "save_mapping_data" /\ tasks[u].op = "save_mapping_data"
         /\ tasks[t].f # tasks[u].f
         /\ tasks[t].pc = "done" /\ tasks[t].outcome = "ok"
         /\ tasks[u].pc = "done" /\ tasks[u].outcome = "ok")
            => /\ Lookup(mapping_data_cache.data, tasks[t].f, tasks[t].s)
                      = IntVal(tasks[t].d)
               /\ Lookup(mapping_data_cache.data, tasks[u].f, tasks[u].s)
                      = IntVal(tasks[u].d)
               /\ messages_history_file.st = "json"
               /\ \A w \in {t, u} :
                      \E entry \in Entries(messages_history_file.doc) :
                          /\ entry[1] = tasks[w].f
                          /\ KeyInt(entry[2]) = tasks[w].s
                          /\ entry[3] = IntVal(tasks[w].d)

(***************************************************************************)
(* C23.  Lazy load happens once: whatever number of calls find the cache   *)
(* cold, the history file is read at most once and the cache is populated  *)
(* at most once, every caller gets the same cache object, and no call      *)
(* reads the file once the cache is populated.  Stated for the runs in     *)
(* which the operating system fails no read.                               *)
(***************************************************************************)
C23_LazyLoadOnce ==
    (\A t \in Tasks : tasks[t].raised # "OSError")
        => /\ loads.reads <= 1
           /\ loads.populated <= 1
           /\ \A t, u \in Tasks :
                  (tasks[t].cache # 0 /\ tasks[u].cache # 0)
                      => tasks[t].cache = tasks[u].cache

(***************************************************************************)
(* The Config class: the objects Config() creates, the class dict          *)
(* _instances, and the modules that hold a configuration.  An object is    *)
(* known by its position in heap; internet_connected is the flag of the    *)
(* AppConfig that self.app refers to.                                      *)
(***************************************************************************)
\* config = Config() at import
Modules == {"app", "history", "openai_handler"}

Versions == {"", "v1"}

\* how many times the operator replaces a configuration file
MaxEdits == 1

\* set_file_path: the path it assigns to self._file_path
set_file_path(version) ==
    IF version # "" THEN "config-" \o version \o ".yml" ELSE "config.yml"

Paths == {set_file_path(version) : version \in Versions}

\* the documents at the two paths: two complete ones that differ in the
\* forwarder list, and no file
OneForwarder == Mapping(Sections, DisabledOpenAI,
                        ForwarderList(1, <<<<<<IntVal(1), IntVal(1)>>,
                                             Policy(TRUE, TRUE, {}, <<>>, <<>>)>>>>))
OtherForwarder == Mapping(Sections, DisabledOpenAI,
                          ForwarderList(1, <<<<<<IntVal(2), IntVal(1)>>,
                                               Policy(TRUE, FALSE, {}, <<>>, <<>>)>>>>))
RegistryDocuments == {OneForwarder, OtherForwarder, MissingFile}

\* what load leaves of the object: AppConfig.__init__ sets
\* internet_connected to False each time self.app is assigned
Reloaded(object, l) ==
    [object EXCEPT !.self = l.self,
                   !.internet_connected = IF l.validated /\ l.valid THEN FALSE ELSE @]

\* the object __new__ creates, as __init__ finds it when it calls load
NewInstance == [self |-> NewConfig, file_path |-> "config.yml",
                initialized |-> TRUE, internet_connected |-> FALSE]

\* Config() has created the object id, and its load has ended as l
Created(hp, inst, id, l) ==
    [heap |-> Append(hp, Reloaded(NewInstance, l)),
     instances |-> DictSet(inst, Str(""), id),
     returned |-> id, outcome |-> l.outcome, loaded |-> TRUE]

\* Config(): __new__ and then __init__ on what it returns.  No key of
\* _instances is ever None, so __new__ creates an object each time and puts
\* it under ""; _file_path is still the attribute of the class.
ConfigCall(hp, inst, files) ==
    IF ~DictHas(inst, None)
    THEN Created(hp, inst, Len(hp) + 1,
                 Load(NewInstance.self, files[NewInstance.file_path]))
    ELSE [heap |-> hp, instances |-> inst, returned |-> DictGet(inst, Str(""), 0),
          outcome |-> "returned", loaded |-> FALSE]

\* get_config_instance(version): the object, 0 for the ValueError
get_config_instance(inst, version) ==
    IF version # "" /\ DictHas(inst, Str(version))
    THEN DictGet(inst, Str(version), 0)
    ELSE DictGet(inst, Str(""), 0)

\* an exception or sys.exit(1) that nothing catches has ended the process
Running == registry_call.outcome \in {"", "returned"}

OutsideRegistry == UNCHANGED <<hvars, cvars, tvars>>

\* Config() has ended as c in the import of module m
Constructed(m, c) ==
    /\ heap' = c.heap
    /\ instances' = c.instances
    /\ modules' = IF c.outcome = "returned"
                  THEN [modules EXCEPT ![m] = c.returned] ELSE modules
    /\ registry_call' = [op |-> "Config", outcome |-> c.outcome, module |-> m,
                         version |-> "", returned |-> c.returned, loaded |-> c.loaded]

\* module m is imported: config = Config()
Construct(m) ==
    /\ Running
    /\ modules[m] = 0
    /\ Constructed(m, ConfigCall(heap, instances, config_files))
    /\ UNCHANGED <<config_files, edits>>
    /\ OutsideRegistry

\* the load of set_version on the object id, with its new path, has ended as l
VersionLoaded(version, hp, inst, id, object, l) ==
    /\ heap' = [hp EXCEPT ![id] = Reloaded(object, l)]
    /\ instances' = inst
    /\ registry_call' = [op |-> "set_version", outcome |-> l.outcome, module |-> "",
                         version |-> version,
                         returned |-> IF l.outcome = "returned" THEN id ELSE 0,
                         loaded |-> TRUE]

\* set_file_path on the object id
PathSet(version, hp, inst, id, object) ==
    VersionLoaded(version, hp, inst, id, object,
                  Load(object.self, config_files[object.file_path]))

\* the end of set_version once _instances[version] is there
SetPathAndLoad(version, hp, inst, id) ==
    PathSet(version, hp, inst, id,
            [hp[id] EXCEPT !.file_path = set_file_path(version)])

\* set_version has found no _instances[version] and its Config() has ended as c
Registered(version, c) ==
    IF c.outcome # "returned"
    THEN /\ heap' = c.heap
         /\ instances' = c.instances
         /\ registry_call' = [op |-> "set_version", outcome |-> c.outcome,
                              module |-> "", version |-> version,
                              returned |-> 0, loaded |-> c.loaded]
    ELSE SetPathAndLoad(version, c.heap,
                        DictSet(c.instances, Str(version), c.returned), c.returned)

\* a module that holds a configuration calls config.set_version(version)
set_version(version) ==
    /\ Running
    /\ \E m \in Modules : modules[m] # 0
    /\ IF ~DictHas(instances, Str(version))
       THEN Registered(version, ConfigCall(heap, instances, config_files))
       ELSE SetPathAndLoad(version, heap, instances,
                           DictGet(instances, Str(version), 0))
    /\ UNCHANGED <<config_files, modules, edits>>
    /\ OutsideRegistry

\* module m sets config.app.internet_connected = True
SetFlag(m) ==
    /\ Running
    /\ modules[m] # 0
    /\ heap[modules[m]].self.app = "loaded"
    /\ ~heap[modules[m]].internet_connected
    /\ heap' = [heap EXCEPT ![modules[m]].internet_connected = TRUE]
    /\ registry_call' = [NoRegistryCall EXCEPT !.op = "set_flag"]
    /\ UNCHANGED <<config_files, instances, modules, edits>>
    /\ OutsideRegistry

\* the operator replaces the file at path
EditFile(path, document) ==
    /\ Running
    /\ edits < MaxEdits
    /\ edits' = edits + 1
    /\ config_files[path] # document
    /\ config_files' = [config_files EXCEPT ![path] = document]
    /\ registry_call' = [NoRegistryCall EXCEPT !.op = "edit_file"]
    /\ UNCHANGED <<heap, instances, modules>>
    /\ OutsideRegistry

Import == \E m \in Modules : Construct(m)
SetVersion == \E version \in Versions : set_version(version)
SetInternetConnected == \E m \in Modules : SetFlag(m)
Edit == \E path \in Paths, document \in RegistryDocuments : EditFile(path, document)

RegistryInit ==
    /\ config_files \in [Paths -> RegistryDocuments]
    /\ heap = <<>>
    /\ instances = <<>>
    /\ modules = [m \in Modules |-> 0]
    /\ registry_call = NoRegistryCall
    /\ edits = 0
    /\ NoTasks
    /\ mapping_data_cache = NoCache
    /\ messages_history_file = AbsentFile
    /\ missed_messages_history_file = AbsentFile
    /\ last = NoCall
    /\ process = NewProcess
    /\ calls = 0
    /\ config_file = MissingFile
    /\ config = NewConfig
    /\ config_call = NoConfigCall

RegistryNext ==
    \/ Import
    \/ SetVersion
    \/ SetInternetConnected
    \/ Edit

RegistrySpec == RegistryInit /\ [][RegistryNext]_vars

\* the modules that hold a configuration once the step is made
Holders == {m \in Modules : modules'[m] # 0}

(***************************************************************************)
(* C24.  set_version on a version that is already registered changes no   *)
(* object that was there before the call: whoever holds the old object     *)
(* still reads its old application settings and its old forwarder list     *)
(* after the reload.                                                       *)
(***************************************************************************)
C24_ReloadReplaces ==
    [][(/\ registry_call'.op = "set_version"
        /\ registry_call'.outcome = "returned"
        /\ DictHas(instances, Str(registry_call'.version)))
           => \A id \in 1..Len(heap) :
                  /\ heap'[id].self = heap[id].self
                  /\ heap'[id].internet_connected = heap[id].internet_connected
      ]_vars

(***************************************************************************)
(* C27.  Config is a singleton of the process: every Config() returns the  *)
(* same object, only the first one loads the file, the object under the    *)
(* version "" is never replaced by another, and so every module sees the   *)
(* internet_connected flag that any module has set.                        *)
(***************************************************************************)
C27_ConfigSingleton ==
    [][/\ \A m, n \in Holders :
              /\ modules'[m] = modules'[n]
              /\ heap'[modules'[m]].internet_connected
                     = heap'[modules'[n]].internet_connected
       /\ (registry_call'.op = "Config" /\ DictHas(instances, Str("")))
              => ~registry_call'.loaded
       /\ DictHas(instances, Str(""))
              => get_config_instance(instances', "") = get_config_instance(instances, "")
      ]_vars

(***************************************************************************)
(* C28.  set_version(v) for a non-empty version v that is not registered   *)
(* leaves the default version as it was: get_config_instance("") is the    *)
(* same object with the same rule set after the call as before it, and     *)
(* the object registered under v is another object.                        *)
(***************************************************************************)
C28_VersionsIndependent ==
    [][(/\ registry_call'.op = "set_version"
        /\ registry_call'.outcome = "returned"
        /\ registry_call'.version # ""
        /\ ~DictHas(instances, Str(registry_call'.version)))
           => LET before == get_config_instance(instances, "")
                  after == get_config_instance(instances', "")
              IN /\ after = before
                 /\ heap'[after].self = heap[before].self
                 /\ get_config_instance(instances', registry_call'.version) # after
      ]_vars

====
